---- MODULE Spec2Model ----
(***************************************************************************)
(* A model of src/src/text_store.rs (TfTextStore): the logical document    *)
(* lock (lock_state + LockGuard), the advise sink registration behind its  *)
(* Mutex, the document text and the two sink callbacks (OnLockGranted,     *)
(* OnTextChange).  Every thread has a call stack of frames; a callback     *)
(* frame may re-enter the store on the same thread.  It also models        *)
(* src/src/edit_session.rs (EditSession): DoEditSession sending the edit   *)
(* cookie over an mpsc channel to a receiver that may have been dropped.   *)
(***************************************************************************)
EXTENDS Integers, Sequences, FiniteSets, TLC

\* ---------------------------------------------------------------- constants
\* windows::Win32::UI::TextServices flag values imported at text_store.rs:3
TS_LF_SYNC == 1
TS_LF_READ == 2
TS_LF_READWRITE == 6
TS_AS_TEXT_CHANGE == 1
TS_RT_PLAIN == 0

\* ------------------------------------------------------------------- bounds
\* Calls (top-level or re-entrant) started in one behaviour.
MaxCalls == 3
\* Largest cchplainreq passed to GetText.
MaxReq == 2
\* DoEditSession calls that sent their cookie in one behaviour.
MaxDispatch == 4

\* ------------------------------------------------------------------- inputs
Threads == {"t1", "t2"}
Main == "t1"
NoThread == "none"

NoObs == "null"
Observers == {"obsA", "obsB"}
\* an object that does not implement ITextStoreACPSink (query fails)
NotASink == "objX"
Punks == Observers \cup {NotASink, NoObs}
Masks == {0, 1, 2}

\* dwlockflags: SYNC alone, READ|SYNC, READWRITE, READWRITE|SYNC
LockFlags == {1, 3, 6, 7}

\* ASCII texts as UTF-8 bytes: "", "h", "hi"
Texts == {<<>>, <<104>>, <<104, 105>>}

\* prior content of every u16 unit of the caller's pchplain buffer
Fills == {0, 65535}
\* value of an out-parameter the call did not write
Unset == 0 - 1

\* edit cookies (ec) the host hands to DoEditSession
Cookies == {1, 2}

VARIABLES
  text_store_sink,  \* advice_sink.text_store_sink (NoObs = None)
  mask,             \* advice_sink.mask
  sink_owner,       \* thread holding the advice_sink Mutex, or NoThread
  input_text,       \* input_text: the String's bytes
  lock_state,       \* lock_state: <<LockType, flags>>
  stack,            \* per thread: the frames of the calls in progress
  ret,              \* what the step just taken returned, if it ended a call
  events,           \* OnTextChange invocations so far, in order
  aborted,          \* the process was aborted by a panic
  ncalls,           \* calls started so far
  nwrites,          \* replacements of input_text so far
  receiver,         \* the channel's Receiver<u32> has not been dropped
  channel,          \* cookies sent and not yet received, oldest first
  received,         \* cookies the receiver took out, in order
  dispatched,       \* cookies of the DoEditSession calls that returned Ok
  session_ret       \* what the last DoEditSession call returned

\* the state of the text store
store_vars == <<text_store_sink, mask, sink_owner, input_text, lock_state,
                stack, ret, events, aborted, ncalls, nwrites>>
\* the state of the edit session's channel
session_vars == <<receiver, channel, received, dispatched, session_ret>>
vars == <<store_vars, session_vars>>

\* ------------------------------------------------------------ pure helpers
RECURSIVE BitAnd(_, _)
BitAnd(a, b) ==
  IF a = 0 \/ b = 0 THEN 0
  ELSE (a % 2) * (b % 2) + 2 * BitAnd(a \div 2, b \div 2)

flag_check(value, flag) == BitAnd(value, flag) = flag

Min(a, b) == IF a < b THEN a ELSE b

LockTypeFrom(flags) ==
  IF flag_check(flags, TS_LF_READWRITE) THEN "ReadWrite"
  ELSE IF flag_check(flags, TS_LF_READ) THEN "Read"
  ELSE "None"

Unlocked == <<"None", 0>>

\* mutant: one common bit is enough
is_locked_AnyBit(flags) ==
  lock_state[1] # "None" /\ BitAnd(lock_state[2], flags) # 0

is_locked(flags) == lock_state[1] # "None" /\ flag_check(lock_state[2], flags)

\* try_lock succeeds iff the stored LockType is None
try_lock_ok == lock_state[1] = "None"
try_lock_state(flags) == <<LockTypeFrom(flags), flags>>

\* ------------------------------------------------------------------ frames
\* A call's arguments enter its frame where the code first reads them.
NoFrameText == <<>>
Frame(op, pc) ==
  [op |-> op, pc |-> pc, flags |-> 0, text |-> NoFrameText, old_len |-> 0,
   new_len |-> 0, guard |-> FALSE, ncb |-> 0, hr |-> "S_OK", obs |-> NoObs,
   \* history, not program state: the document length when the call was made,
   \* the ordinal of the call's write
   pre_len |-> 0, seq |-> 0]

NoRet ==
  [op |-> "none", thread |-> NoThread, res |-> "none", hr |-> "none",
   flags |-> 0, ncb |-> 0, punk |-> NoObs, mask |-> 0,
   pchplain |-> <<>>, pcchplainret |-> Unset, run_type |-> Unset,
   uCount |-> Unset, pcruninforet |-> Unset, pacpnext |-> Unset,
   acpstart |-> 0, cchplainreq |-> 0, cruninforeq |-> 0, fill |-> 0,
   text |-> NoFrameText,
   \* history: the registration, lock type and document length the call found
   pre_sink |-> NoObs, pre_mask |-> 0, pre_lock |-> <<"None", 0>>,
   pre_len |-> 0]

\* Result<_, Error> of a finished call: res is "Ok" or "Err", hr the HRESULT
Ret(op, res, hr) == [NoRet EXCEPT !.op = op, !.res = res, !.hr = hr]

Returned(t, r) == [r EXCEPT !.thread = t]

Top(t) == stack[t][Len(stack[t])]
Push(t, f) == [stack EXCEPT ![t] = Append(@, f)]
Pop(t) == [stack EXCEPT ![t] = SubSeq(@, 1, Len(@) - 1)]
SetTop(t, f) == [stack EXCEPT ![t] = [@ EXCEPT ![Len(@)] = f]]
\* replace the top frame by f and push g above it
SetTopPush(t, f, g) ==
  [stack EXCEPT ![t] = Append([@ EXCEPT ![Len(@)] = f], g)]
\* pop the top frame and replace the frame below it
Below(t) == stack[t][Len(stack[t]) - 1]
PopSetTop(t, f) ==
  [stack EXCEPT ![t] = [SubSeq(@, 1, Len(@) - 1) EXCEPT ![Len(@) - 1] = f]]

InFrame(t, op, pc) ==
  /\ ~aborted
  /\ stack[t] # <<>>
  /\ Top(t).op = op
  /\ Top(t).pc = pc

\* A thread may start a call when it is idle, or from inside a sink callback.
CanCall(t) ==
  /\ ~aborted
  /\ ncalls < MaxCalls
  /\ (IF stack[t] = <<>> THEN TRUE ELSE Top(t).pc = "run")

\* no DoEditSession call has returned yet
NoSessionRet == [ec |-> 0, sent |-> FALSE, res |-> "none", code |-> "none",
                 hresult |-> "none"]

Init ==
  /\ text_store_sink = NoObs
  /\ mask = 0
  /\ sink_owner = NoThread
  /\ input_text = <<>>
  /\ lock_state = Unlocked
  /\ stack = [t \in Threads |-> <<>>]
  /\ ret = NoRet
  /\ events = <<>>
  /\ aborted = FALSE
  /\ ncalls = 0
  /\ nwrites = 0
  /\ receiver = TRUE
  /\ channel = <<>>
  /\ received = <<>>
  /\ dispatched = <<>>
  /\ session_ret = NoSessionRet

\* ------------------------------------------------- advice_sink.lock().unwrap()
\* Blocks while another thread owns the Mutex.  Locking it again on the owning
\* thread never returns: std leaves open whether that deadlocks or panics, and
\* a panic below a COM callback aborts the process.
NextPc(op) ==
  CASE op = "RequestLock" -> "check"
    [] op = "set_string" -> "notify"
    [] OTHER -> "body"

\* the Mutex can be taken
SinkMutexFree(t) == sink_owner = NoThread

LockSink(t) ==
  /\ ~aborted
  /\ stack[t] # <<>>
  /\ Top(t).pc = "lock_sink"
  /\ \/ /\ SinkMutexFree(t)
        /\ sink_owner' = t
        /\ stack' = SetTop(t, [Top(t) EXCEPT !.pc = NextPc(Top(t).op)])
        /\ UNCHANGED aborted
     \/ /\ sink_owner = t
        /\ stack' = SetTop(t, [Top(t) EXCEPT !.pc = "deadlock"])
        /\ UNCHANGED <<sink_owner, aborted>>
     \/ /\ sink_owner = t
        /\ aborted' = TRUE
        /\ UNCHANGED <<sink_owner, stack>>
  /\ ret' = NoRet
  /\ UNCHANGED <<session_vars, text_store_sink, mask, input_text, lock_state,
                 events, ncalls, nwrites>>

\* ------------------------------------------------------------- AdviseSink
\* lines 165-170: a null punk is refused before the Mutex is taken
AdviseSink(t, punk) ==
  /\ CanCall(t)
  /\ ncalls' = ncalls + 1
  /\ IF punk = NoObs
     THEN /\ ret' = Returned(t, Ret("AdviseSink", "Err", "E_INVALIDARG"))
          /\ UNCHANGED stack
     ELSE /\ stack' = Push(t, Frame("AdviseSink", "lock_sink"))
          /\ ret' = NoRet
  /\ UNCHANGED <<session_vars, text_store_sink, mask, sink_owner, input_text,
                 lock_state, events, aborted, nwrites>>

\* lines 172-190: the registration AdviseSink leaves behind
AdviseSinkStore(punk, m) ==
  IF text_store_sink # NoObs THEN <<text_store_sink, m>>
  ELSE IF punk \in Observers THEN <<punk, m>>
  ELSE <<text_store_sink, mask>>

\* lines 172-190: its result; punk.query fails for an object that is no sink
AdviseSinkResult(punk) ==
  IF text_store_sink # NoObs \/ punk \in Observers
  THEN Ret("AdviseSink", "Ok", "S_OK")
  ELSE Ret("AdviseSink", "Err", "E_NOINTERFACE")

AdviseSinkBody(t, punk, m) ==
  /\ InFrame(t, "AdviseSink", "body")
  /\ punk # NoObs
  /\ text_store_sink' = AdviseSinkStore(punk, m)[1]
  /\ mask' = AdviseSinkStore(punk, m)[2]
  /\ ret' = Returned(t, [AdviseSinkResult(punk)
                           EXCEPT !.punk = punk, !.mask = m,
                                  !.pre_sink = text_store_sink,
                                  !.pre_mask = mask])
  /\ sink_owner' = NoThread
  /\ stack' = Pop(t)
  /\ UNCHANGED <<session_vars, input_text, lock_state, events, aborted,
                 ncalls, nwrites>>

\* ----------------------------------------------------------- UnadviseSink
\* line 193: punk is never read
UnadviseSink(t, punk) ==
  /\ CanCall(t)
  /\ ncalls' = ncalls + 1
  /\ stack' = Push(t, Frame("UnadviseSink", "lock_sink"))
  /\ ret' = NoRet
  /\ UNCHANGED <<session_vars, text_store_sink, mask, sink_owner, input_text,
                 lock_state, events, aborted, nwrites>>

\* mutant: the mask survives the unregistration
UnadviseSinkStore_KeepsMask ==
  IF text_store_sink # NoObs THEN <<NoObs, mask>> ELSE <<text_store_sink, mask>>

\* lines 196-203
UnadviseSinkStore ==
  IF text_store_sink # NoObs THEN <<NoObs, 0>> ELSE <<text_store_sink, mask>>

UnadviseSinkResult ==
  IF text_store_sink # NoObs THEN Ret("UnadviseSink", "Ok", "S_OK")
  ELSE Ret("UnadviseSink", "Err", "E_INVALIDARG")

UnadviseSinkBody(t) ==
  /\ InFrame(t, "UnadviseSink", "body")
  /\ text_store_sink' = UnadviseSinkStore[1]
  /\ mask' = UnadviseSinkStore[2]
  /\ ret' = Returned(t, [UnadviseSinkResult
                           EXCEPT !.pre_sink = text_store_sink,
                                  !.pre_mask = mask])
  /\ sink_owner' = NoThread
  /\ stack' = Pop(t)
  /\ UNCHANGED <<session_vars, input_text, lock_state, events, aborted,
                 ncalls, nwrites>>

\* ------------------------------------------------------------ RequestLock
RequestLock(t) ==
  /\ CanCall(t)
  /\ ncalls' = ncalls + 1
  /\ stack' = Push(t, Frame("RequestLock", "lock_sink"))
  /\ ret' = NoRet
  /\ UNCHANGED <<session_vars, text_store_sink, mask, sink_owner, input_text,
                 lock_state, events, aborted, nwrites>>

\* what a finished RequestLock hands back
RequestLockRet(f, res, hr) ==
  [Ret("RequestLock", res, hr) EXCEPT !.flags = f.flags, !.ncb = f.ncb,
                                      !.pre_sink = text_store_sink]

\* mutant: the missing sink goes unnoticed
NoSinkRegistered_Skipped == FALSE

\* line 209: no sink registered
NoSinkRegistered == text_store_sink = NoObs

\* lines 213-216
is_currently_locked == lock_state[1] # "None"

\* mutant: the two busy results the other way round
BusyResult_Swapped(dwlockflags) ==
  IF flag_check(dwlockflags, TS_LF_SYNC) THEN "E_NOTIMPL" ELSE "TS_E_SYNCHRONOUS"

\* lines 219-223: the HRESULT when the store is locked
BusyResult(dwlockflags) ==
  IF flag_check(dwlockflags, TS_LF_SYNC) THEN "TS_E_SYNCHRONOUS" ELSE "E_NOTIMPL"

\* lines 209-223, with the advice_sink Mutex held
RlCheck(t, dwlockflags) ==
  /\ InFrame(t, "RequestLock", "check")
  /\ LET f == [Top(t) EXCEPT !.flags = dwlockflags]
     IN IF NoSinkRegistered
        THEN /\ ret' = Returned(t, RequestLockRet(f, "Ok", "E_UNEXPECTED"))
             /\ sink_owner' = NoThread
             /\ stack' = Pop(t)
        ELSE IF is_currently_locked
        THEN /\ ret' = Returned(t,
                          [RequestLockRet(f, "Ok", BusyResult(f.flags))
                             EXCEPT !.pre_lock = lock_state])
             /\ sink_owner' = NoThread
             /\ stack' = Pop(t)
        ELSE /\ stack' = SetTop(t, [f EXCEPT !.pc = "try"])
             /\ ret' = NoRet
             /\ UNCHANGED sink_owner
  /\ UNCHANGED <<session_vars, text_store_sink, mask, input_text, lock_state,
                 events, aborted, ncalls, nwrites>>

\* mutant: the registration Mutex is released before the callback is made
SinkOwnerInCallback_Released(t) == NoThread

\* lines 207-227: advice_sink stays locked while the callback runs
SinkOwnerInCallback(t) == t

\* the sink's OnLockGranted starts, line 227
LockGrantedFrame(f) ==
  [Frame("OnLockGranted", "run") EXCEPT !.obs = text_store_sink,
                                        !.flags = f.flags]

\* lines 225-227: try_lock, then the sink's OnLockGranted; line 236 otherwise
RlTry(t) ==
  /\ InFrame(t, "RequestLock", "try")
  /\ LET f == Top(t)
     IN IF try_lock_ok
        THEN /\ lock_state' = try_lock_state(f.flags)
             /\ stack' = SetTopPush(t, [f EXCEPT !.pc = "in_callback",
                                                 !.guard = TRUE,
                                                 !.ncb = f.ncb + 1],
                                    LockGrantedFrame(f))
             /\ sink_owner' = SinkOwnerInCallback(t)
             /\ ret' = NoRet
        ELSE /\ ret' = Returned(t, RequestLockRet(f, "Ok", "S_OK"))
             /\ sink_owner' = NoThread
             /\ stack' = Pop(t)
             /\ UNCHANGED lock_state
  /\ UNCHANGED <<session_vars, text_store_sink, mask, input_text, events,
                 aborted, ncalls, nwrites>>

\* the sink's OnLockGranted returns hr to line 227
OnLockGrantedReturn(t, hr) ==
  /\ InFrame(t, "OnLockGranted", "run")
  /\ stack' = PopSetTop(t, [Below(t) EXCEPT !.pc = "drop_guard", !.hr = hr])
  /\ ret' = NoRet
  /\ UNCHANGED <<session_vars, text_store_sink, mask, sink_owner, input_text,
                 lock_state, events, aborted, ncalls, nwrites>>

\* mutant: the guard's drop leaves the lock state as it is
LockGuardDrop_Keeps == lock_state

\* LockGuard::drop, lines 108-113
LockGuardDrop == Unlocked

\* _guard goes out of scope
RlDropGuard(t) ==
  /\ InFrame(t, "RequestLock", "drop_guard")
  /\ lock_state' = LockGuardDrop
  /\ stack' = SetTop(t, [Top(t) EXCEPT !.pc = "unlock_sink", !.guard = FALSE])
  /\ ret' = NoRet
  /\ UNCHANGED <<session_vars, text_store_sink, mask, sink_owner, input_text,
                 events, aborted, ncalls, nwrites>>

\* mutant: the callback's failure is swallowed
RequestLockResult_Swallowed(f) == RequestLockRet(f, "Ok", "S_OK")

\* lines 229-232: the callback's outcome is the call's
RequestLockResult(f) ==
  IF f.hr = "S_OK" THEN RequestLockRet(f, "Ok", "S_OK")
  ELSE RequestLockRet(f, "Err", f.hr)

\* advice_sink is released and the call returns
RlReturn(t) ==
  /\ InFrame(t, "RequestLock", "unlock_sink")
  /\ ret' = Returned(t, RequestLockResult(Top(t)))
  /\ sink_owner' = NoThread
  /\ stack' = Pop(t)
  /\ UNCHANGED <<session_vars, text_store_sink, mask, input_text, lock_state,
                 events, aborted, ncalls, nwrites>>

\* ------------------------------------------------------------- set_string
\* line 73: try_lock(TS_LF_READWRITE)
set_string(t) ==
  /\ CanCall(t)
  /\ ncalls' = ncalls + 1
  /\ IF try_lock_ok
     THEN /\ lock_state' = try_lock_state(TS_LF_READWRITE)
          /\ stack' = Push(t, [Frame("set_string", "read_len")
                               EXCEPT !.guard = TRUE,
                                      !.pre_len = Len(input_text)])
          /\ ret' = NoRet
     ELSE /\ ret' = Returned(t, [Ret("set_string", "false", "none")
                                   EXCEPT !.pre_lock = lock_state,
                                          !.pre_len = Len(input_text)])
          /\ UNCHANGED <<lock_state, stack>>
  /\ UNCHANGED <<session_vars, text_store_sink, mask, sink_owner, input_text,
                 events, aborted, nwrites>>

\* line 74
SsReadLen(t) ==
  /\ InFrame(t, "set_string", "read_len")
  /\ stack' = SetTop(t, [Top(t) EXCEPT !.pc = "write",
                                       !.old_len = Len(input_text)])
  /\ ret' = NoRet
  /\ UNCHANGED <<session_vars, text_store_sink, mask, sink_owner, input_text,
                 lock_state, events, aborted, ncalls, nwrites>>

\* line 77: text.to_string() copies the bytes of text
to_string(text) == text

\* lines 76-86
SsWrite(t, text) ==
  /\ InFrame(t, "set_string", "write")
  /\ input_text' = to_string(text)
  /\ nwrites' = nwrites + 1
  /\ stack' = SetTop(t, [Top(t) EXCEPT !.pc = "lock_sink",
                                       !.text = text,
                                       !.new_len = Len(to_string(text)),
                                       !.seq = nwrites + 1])
  /\ ret' = NoRet
  /\ UNCHANGED <<session_vars, text_store_sink, mask, sink_owner, lock_state,
                 events, aborted, ncalls>>

\* lines 89-90: is the change delivered
Notifies == flag_check(mask, TS_AS_TEXT_CHANGE) /\ text_store_sink # NoObs

\* mutant: the old end is taken after the replacement
TextChange_OldAfter(f) ==
  [obs |-> text_store_sink, acpStart |-> 0, acpOldEnd |-> f.new_len,
   acpNewEnd |-> f.new_len, seq |-> f.seq]

\* lines 80-84, and who receives it
TextChange(f) ==
  [obs |-> text_store_sink, acpStart |-> 0, acpOldEnd |-> f.old_len,
   acpNewEnd |-> f.new_len, seq |-> f.seq]

\* lines 89-95, with the advice_sink Mutex held
SsNotify(t) ==
  /\ InFrame(t, "set_string", "notify")
  /\ LET f == Top(t)
     IN IF Notifies
        THEN /\ events' = Append(events, TextChange(f))
             /\ stack' = SetTopPush(t, [f EXCEPT !.pc = "in_callback",
                                                 !.ncb = f.ncb + 1],
                                    [Frame("OnTextChange", "run")
                                       EXCEPT !.obs = text_store_sink])
        ELSE /\ stack' = SetTop(t, [f EXCEPT !.pc = "unlock_sink"])
             /\ UNCHANGED events
  /\ ret' = NoRet
  /\ UNCHANGED <<session_vars, text_store_sink, mask, sink_owner, input_text,
                 lock_state, aborted, ncalls, nwrites>>

\* the sink's OnTextChange returns; line 92 discards its result
OnTextChangeReturn(t, hr) ==
  /\ InFrame(t, "OnTextChange", "run")
  /\ stack' = PopSetTop(t, [Below(t) EXCEPT !.pc = "unlock_sink"])
  /\ ret' = NoRet
  /\ UNCHANGED <<session_vars, text_store_sink, mask, sink_owner, input_text,
                 lock_state, events, aborted, ncalls, nwrites>>

\* end of the if-let body: advice_sink, declared last, is dropped first
SsUnlockSink(t) ==
  /\ InFrame(t, "set_string", "unlock_sink")
  /\ sink_owner' = NoThread
  /\ stack' = SetTop(t, [Top(t) EXCEPT !.pc = "drop_guard"])
  /\ ret' = NoRet
  /\ UNCHANGED <<session_vars, text_store_sink, mask, input_text, lock_state,
                 events, aborted, ncalls, nwrites>>

\* then _lock is dropped and the call returns true
SsDropGuard(t) ==
  /\ InFrame(t, "set_string", "drop_guard")
  /\ lock_state' = LockGuardDrop
  /\ LET f == Top(t)
     IN ret' = Returned(t, [Ret("set_string", "true", "none")
                              EXCEPT !.text = f.text, !.ncb = f.ncb,
                                     !.pre_len = f.pre_len,
                                     !.pre_sink = text_store_sink,
                                     !.pre_mask = mask])
  /\ stack' = Pop(t)
  /\ UNCHANGED <<session_vars, text_store_sink, mask, sink_owner, input_text,
                 events, aborted, ncalls, nwrites>>

\* ---------------------------------------------------------------- GetText
\* the caller's buffer of cchplainreq u16 units before the call
Buffer(cchplainreq, fill) == [i \in 1..cchplainreq |-> fill]

\* lines 258-262: copy_len bytes of the String are written to the start of
\* the buffer seen as bytes (pchplain.0 as *mut u8); units are little-endian
CopyBytes(src, copy_len, cchplainreq, fill) ==
  [i \in 1..cchplainreq |->
     LET lo == IF 2 * (i - 1) < copy_len THEN src[2 * (i - 1) + 1]
               ELSE fill % 256
         hi == IF 2 * (i - 1) + 1 < copy_len THEN src[2 * (i - 1) + 2]
               ELSE fill \div 256
     IN lo + 256 * hi]

\* mutant: the request is not taken into account
CopyLen_Whole(text_len, cchplainreq) == text_len

\* line 256
CopyLen(text_len, cchplainreq) == Min(text_len, cchplainreq)

\* line 285
NextAcp(acpstart, text_len) == acpstart + text_len

GetTextRet(res, hr, acpstart, cchplainreq, cruninforeq, fill) ==
  [Ret("GetText", res, hr) EXCEPT !.acpstart = acpstart,
                                  !.cchplainreq = cchplainreq,
                                  !.cruninforeq = cruninforeq,
                                  !.fill = fill,
                                  !.pchplain = Buffer(cchplainreq, fill),
                                  !.pre_lock = lock_state]

\* line 250
HasReadLock == is_locked(TS_LF_READ)

\* lines 250-252: without a read lock nothing is written
GetText(t, acpstart, cchplainreq, cruninforeq, fill) ==
  /\ CanCall(t)
  /\ ncalls' = ncalls + 1
  /\ IF ~HasReadLock
     THEN /\ ret' = Returned(t,
                       GetTextRet("Err", "TS_E_NOLOCK", acpstart, cchplainreq,
                                  cruninforeq, fill))
          /\ UNCHANGED stack
     ELSE /\ stack' = Push(t, Frame("GetText", "copy"))
          /\ ret' = NoRet
  /\ UNCHANGED <<session_vars, text_store_sink, mask, sink_owner, input_text,
                 lock_state, events, aborted, nwrites>>

\* lines 254-289: the out-parameters of a successful GetText
GetTextOut(acpstart, cchplainreq, cruninforeq, fill) ==
  LET text_len == Len(input_text)
      copy_len == CopyLen(text_len, cchplainreq)
  IN [GetTextRet("Ok", "S_OK", acpstart, cchplainreq, cruninforeq, fill)
        EXCEPT !.pchplain = IF copy_len > 0
                            THEN CopyBytes(input_text, copy_len, cchplainreq,
                                           fill)
                            ELSE Buffer(cchplainreq, fill),
               !.pcchplainret = copy_len,
               !.run_type = IF cruninforeq > 0 THEN TS_RT_PLAIN ELSE Unset,
               !.uCount = IF cruninforeq > 0 THEN text_len ELSE Unset,
               !.pcruninforet = 1,
               !.pacpnext = NextAcp(acpstart, text_len),
               !.text = input_text,
               !.pre_len = text_len]

GtCopy(t, acpstart, cchplainreq, cruninforeq, fill) ==
  /\ InFrame(t, "GetText", "copy")
  /\ ret' = Returned(t, GetTextOut(acpstart, cchplainreq, cruninforeq, fill))
  /\ stack' = Pop(t)
  /\ UNCHANGED <<session_vars, text_store_sink, mask, sink_owner, input_text,
                 lock_state, events, aborted, ncalls, nwrites>>

\* ------------------------------------------------------------ EditSession
\* HRESULT::from_win32(error): error 0 is HRESULT(0), which is S_OK; any other
\* Win32 error becomes a failure code of FACILITY_WIN32.
from_win32(error) == IF error = 0 THEN "S_OK" ELSE "E_WIN32"

\* windows_core::Error::new(code, message): the codes the Error may carry.
\* A build of windows-core whose Error stores the HRESULT as given keeps a
\* zero code; a build whose Error stores a non-zero code turns zero into
\* E_FAIL.  The sources do not fix the build.
ErrorNew(code) == IF code = "S_OK" THEN {"S_OK", "E_FAIL"} ELSE {code}

\* Sender::send(ec) succeeds iff the Receiver has not been dropped.
SendOk == receiver

\* what DoEditSession returns, and the HRESULT the ITfEditSession interface
\* hands to the host for it (Ok(()) is S_OK, Err(e) is e's code)
SessionResult(ec, code) ==
  IF SendOk
  THEN [ec |-> ec, sent |-> TRUE, res |-> "Ok", code |-> "none",
        hresult |-> "S_OK"]
  ELSE [ec |-> ec, sent |-> FALSE, res |-> "Err", code |-> code,
        hresult |-> code]

\* mutant: the cookie is sent twice
Sent_Twice(ec) == <<ec, ec>>

\* line 21: what self.sender.send(ec) puts into the channel
Sent(ec) == <<ec>>

DoEditSession(ec) ==
  /\ Len(dispatched) < MaxDispatch
  /\ \E code \in ErrorNew(from_win32(0)) :
       session_ret' = SessionResult(ec, code)
  /\ channel' = IF SendOk THEN channel \o Sent(ec) ELSE channel
  /\ dispatched' = IF SendOk THEN Append(dispatched, ec) ELSE dispatched
  /\ UNCHANGED <<store_vars, receiver, received>>

\* the application-side consumer takes the oldest cookie (Receiver::recv)
Recv ==
  /\ receiver
  /\ channel # <<>>
  /\ received' = Append(received, Head(channel))
  /\ channel' = Tail(channel)
  /\ UNCHANGED <<store_vars, receiver, dispatched, session_ret>>

\* the consumer goes away: the Receiver is dropped with what is still queued
DropReceiver ==
  /\ receiver
  /\ receiver' = FALSE
  /\ channel' = <<>>
  /\ UNCHANGED <<store_vars, received, dispatched, session_ret>>

\* --------------------------------------------------------- specifications
Results == {"S_OK", "E_FAIL"}

\* the store's operations other than set_string
StoreOps(t) ==
  \/ \E punk \in Punks : AdviseSink(t, punk)
  \/ \E punk \in Punks, m \in Masks : AdviseSinkBody(t, punk, m)
  \/ \E punk \in Punks : UnadviseSink(t, punk)
  \/ UnadviseSinkBody(t)
  \/ RequestLock(t)
  \/ LockSink(t)
  \/ \E dwlockflags \in LockFlags : RlCheck(t, dwlockflags)
  \/ RlTry(t)
  \/ \E hr \in Results : OnLockGrantedReturn(t, hr)
  \/ RlDropGuard(t)
  \/ RlReturn(t)
  \/ \E acpstart \in {0, 1}, cchplainreq \in 0..MaxReq, cruninforeq \in {0, 1},
        fill \in Fills :
       \/ GetText(t, acpstart, cchplainreq, cruninforeq, fill)
       \/ GtCopy(t, acpstart, cchplainreq, cruninforeq, fill)

TextOps(t) ==
  \/ set_string(t)
  \/ SsReadLen(t)
  \/ \E text \in Texts : SsWrite(t, text)
  \/ SsNotify(t)
  \/ \E hr \in Results : OnTextChangeReturn(t, hr)
  \/ SsUnlockSink(t)
  \/ SsDropGuard(t)

\* any number of threads calling into the store
Next == \E t \in Threads : StoreOps(t) \/ TextOps(t)
Spec == Init /\ [][Next]_vars

\* threads that never call set_string
NextLocks == \E t \in Threads : StoreOps(t)
SpecLocks == Init /\ [][NextLocks]_vars

\* one caller thread (its callbacks may still re-enter the store)
NextSeq == StoreOps(Main) \/ TextOps(Main)
SpecSeq == Init /\ [][NextSeq]_vars

\* the host dispatching edit sessions to a consumer that may go away
NextSession ==
  \/ \E ec \in Cookies : DoEditSession(ec)
  \/ Recv
  \/ DropReceiver
SpecSession == Init /\ [][NextSession]_vars

\* ------------------------------------------------------------- properties
Last(q) == q[Len(q)]

\* the frames that own a LockGuard
LiveGuards == {x \in {<<t, i>> : t \in Threads, i \in 1..(2 * MaxCalls)} :
                 /\ x[2] <= Len(stack[x[1]])
                 /\ stack[x[1]][x[2]].guard}

\* the frames in which a sink callback is executing
Callbacks(op) == {x \in {<<t, i>> : t \in Threads, i \in 1..(2 * MaxCalls)} :
                    /\ x[2] <= Len(stack[x[1]])
                    /\ stack[x[1]][x[2]].op = op}
FrameAt(x) == stack[x[1]][x[2]]

\* C1: whatever RequestLock calls the threads make and interleave, with any
\* flags, at most one LockGuard is alive at any instant.
C1_MutualExclusion == Cardinality(LiveGuards) <= 1

\* C1 witness: a guard is alive for flags that name no access (the stored
\* LockType is None) while another thread's RequestLock waits for the Mutex.
C1_Witness ==
  /\ Cardinality(LiveGuards) = 1
  /\ lock_state[1] = "None"
  /\ \E t \in Threads :
       /\ stack[t] # <<>>
       /\ Top(t).op = "RequestLock"
       /\ Top(t).pc = "lock_sink"
       /\ sink_owner \notin {t, NoThread}

\* C2: with a sink registered and the store unlocked, a single caller's
\* RequestLock(READWRITE|SYNC) runs OnLockGranted exactly once, the lock state
\* is (ReadWrite, flags) all the while the callback executes, the result is
\* S_OK unless the callback itself failed, and the lock state is Unlocked when
\* the call returns.
RWSync == TS_LF_READWRITE + TS_LF_SYNC
C2_GrantedOnce ==
  /\ \A x \in Callbacks("OnLockGranted") :
       FrameAt(x).flags = RWSync => lock_state = <<"ReadWrite", RWSync>>
  /\ (/\ ret.op = "RequestLock"
      /\ ret.flags = RWSync
      /\ ret.pre_sink # NoObs
      /\ ret.pre_lock[1] = "None")
       => /\ ret.ncb = 1
          /\ lock_state = Unlocked
          /\ ret.hr \in Results
          /\ ret.res = (IF ret.hr = "S_OK" THEN "Ok" ELSE "Err")

\* C2 witness: such a call has returned S_OK after one callback.
C2_Witness ==
  /\ ret.op = "RequestLock"
  /\ ret.flags = RWSync
  /\ ret.hr = "S_OK"
  /\ ret.ncb = 1
  /\ lock_state = Unlocked

C4_ReadText ==
  [][\A t \in Threads :
       LET refused == /\ ret'.op = "GetText"
                      /\ ret'.thread = t
                      /\ stack' = stack
           entered == /\ Len(stack'[t]) = Len(stack[t]) + 1
                      /\ stack'[t][Len(stack'[t])].op = "GetText"
           copied == /\ InFrame(t, "GetText", "copy")
                     /\ stack'[t] # stack[t]
       IN /\ lock_state[1] = "None" => ~entered
          /\ (lock_state[1] # "None" /\ BitAnd(lock_state[2], TS_LF_READ) # 0)
               => ~refused
          /\ refused =>
               /\ ret'.res = "Err"
               /\ ret'.hr = "TS_E_NOLOCK"
               /\ ret'.pchplain = [i \in 1..ret'.cchplainreq |-> ret'.fill]
               /\ ret'.pcchplainret = Unset
               /\ ret'.uCount = Unset
               /\ ret'.pcruninforet = Unset
               /\ ret'.pacpnext = Unset
          /\ copied =>
               /\ ret'.op = "GetText"
               /\ ret'.res = "Ok"
               /\ ret'.pcchplainret =
                    (IF Len(input_text) < ret'.cchplainreq
                     THEN Len(input_text) ELSE ret'.cchplainreq)]_vars

\* C4 witness: under a held lock a GetText asking for fewer units than the
\* document holds has returned Ok.
C4_Witness ==
  /\ ret.op = "GetText"
  /\ ret.res = "Ok"
  /\ lock_state[1] # "None"
  /\ ret.cchplainreq > 0
  /\ ret.cchplainreq < Len(input_text)

\* the deliveries made for the write numbered n
DeliveriesOf(n) == {i \in 1..Len(events) : events[i].seq = n}

\* C5: for a single caller, a set_string that returns true with a sink
\* registered under a mask holding TS_AS_TEXT_CHANGE has made exactly one
\* OnTextChange call, to that sink, with acpStart = 0, acpOldEnd = the length
\* of the document when set_string was called and acpNewEnd = the length of
\* the new text; with no sink or without that bit it has made none.  So each
\* delivery's acpOldEnd is the acpNewEnd of the delivery for the write before
\* it, and 0 for the first write.
C5_TextChangeEvents ==
  /\ (ret.op = "set_string" /\ ret.res = "true") =>
       IF ret.pre_sink # NoObs /\ BitAnd(ret.pre_mask, TS_AS_TEXT_CHANGE) # 0
       THEN /\ ret.ncb = 1
            /\ Cardinality(DeliveriesOf(nwrites)) = 1
            /\ Last(events) = [obs |-> ret.pre_sink, acpStart |-> 0,
                               acpOldEnd |-> ret.pre_len,
                               acpNewEnd |-> Len(ret.text), seq |-> nwrites]
       ELSE /\ ret.ncb = 0
            /\ DeliveriesOf(nwrites) = {}
  /\ \A i \in 1..Len(events) :
       /\ events[i].seq = 1 => events[i].acpOldEnd = 0
       /\ (i > 1 /\ events[i].seq = events[i - 1].seq + 1)
            => events[i].acpOldEnd = events[i - 1].acpNewEnd

\* C5 witness: a second set_string in a row has delivered its change, whose
\* acpOldEnd is not 0.
C5_Witness ==
  /\ ret.op = "set_string"
  /\ ret.res = "true"
  /\ Len(events) = 2
  /\ events[2].seq = events[1].seq + 1
  /\ events[2].acpOldEnd > 0

\* the u16 units of an ASCII text: one unit per byte, of the same value
Utf16Units(text) == [i \in 1..Len(text) |-> text[i]]

\* C6: after set_string(t) returned true the document is t, and a GetText
\* from 0 for Len(t) units under a held lock returns Ok with *pcchplainret =
\* Len(t) and the buffer holding exactly the units of t.
C6_RoundTrip ==
  /\ (ret.op = "set_string" /\ ret.res = "true") => input_text = ret.text
  /\ (/\ ret.op = "GetText"
      /\ ret.res = "Ok"
      /\ ret.acpstart = 0
      /\ ret.cchplainreq = Len(input_text))
       => /\ ret.pcchplainret = Len(input_text)
          /\ ret.pchplain = Utf16Units(input_text)

\* C7: UnadviseSink with no sink registered returns E_INVALIDARG and the
\* registration stays (none, 0); with a sink registered it returns Ok and
\* leaves (none, 0); and an OnTextChange call is only ever made to the sink
\* that is registered while it runs, never to one that was unregistered.
C7_Unsubscribe ==
  /\ ret.op = "UnadviseSink" =>
       /\ text_store_sink = NoObs
       /\ mask = 0
       /\ ret.res = (IF ret.pre_sink = NoObs THEN "Err" ELSE "Ok")
       /\ ret.hr = (IF ret.pre_sink = NoObs THEN "E_INVALIDARG" ELSE "S_OK")
  /\ text_store_sink = NoObs => mask = 0
  /\ \A x \in Callbacks("OnTextChange") :
       /\ text_store_sink # NoObs
       /\ FrameAt(x).obs = text_store_sink

\* C7 witness: a sink registered for text changes has just been
\* unregistered after it received a delivery.
C7_Witness ==
  /\ ret.op = "UnadviseSink"
  /\ ret.res = "Ok"
  /\ BitAnd(ret.pre_mask, TS_AS_TEXT_CHANGE) # 0
  /\ events # <<>>

\* C8: while the sink's OnTextChange executes, the lock set_string took has
\* been released: lock_state is Unlocked.
C8_ReleaseThenNotify ==
  \A x \in Callbacks("OnTextChange") : lock_state = Unlocked

\* C9: a RequestLock that finds no sink registered returns E_UNEXPECTED,
\* whatever its flags and whatever the lock state; it takes no guard, makes
\* no callback and leaves lock_state, the document, the registration and the
\* delivered events as they were.
C9_NoObserver ==
  [][\A t \in Threads :
       (/\ InFrame(t, "RequestLock", "check")
        /\ text_store_sink = NoObs
        /\ stack'[t] # stack[t])
       => /\ ret'.op = "RequestLock"
          /\ ret'.thread = t
          /\ ret'.hr = "E_UNEXPECTED"
          /\ ret'.ncb = 0
          /\ stack'[t] = SubSeq(stack[t], 1, Len(stack[t]) - 1)
          /\ UNCHANGED <<lock_state, text_store_sink, mask, input_text,
                         events>>]_vars

\* C9 witness: E_UNEXPECTED has been returned while another call held the
\* lock.
C9_Witness ==
  /\ ret.op = "RequestLock"
  /\ ret.hr = "E_UNEXPECTED"
  /\ text_store_sink = NoObs
  /\ lock_state[1] # "None"

\* C10: an AdviseSink(obsB, m2) made while obsA is registered returns Ok and
\* leaves the registration (obsB, m2).
C10_Resubscribe ==
  (/\ ret.op = "AdviseSink"
   /\ ret.punk \in Observers
   /\ ret.pre_sink # NoObs)
    => /\ ret.res = "Ok"
       /\ text_store_sink = ret.punk
       /\ mask = ret.mask

\* C11: a DoEditSession whose send failed because the Receiver was dropped
\* hands the host a failure: its result is an Err and the HRESULT the host
\* gets for it is not S_OK.
C11_SendFailureSurfaced ==
  (session_ret.res # "none" /\ ~session_ret.sent)
    => /\ session_ret.res = "Err"
       /\ session_ret.hresult # "S_OK"

\* the frames of calls made from inside the sink callback cb, on its thread
NestedIn(cb) == {x \in {<<t, i>> : t \in Threads, i \in 2..(2 * MaxCalls)} :
                   /\ x[2] <= Len(stack[x[1]])
                   /\ stack[x[1]][x[2] - 1].op = cb}

\* the call of frame x can never return: its thread waits for a Mutex the
\* thread itself owns, or the relock panicked and aborted the process
NeverReturns(x) ==
  \/ FrameAt(x).pc = "deadlock"
  \/ aborted /\ FrameAt(x).pc = "lock_sink" /\ sink_owner = x[1]

\* C12: a RequestLock made while another caller holds the lock is not made to
\* wait: whenever a guard is alive and a thread that does not own it is at
\* the start of RequestLock, that thread can go on (to be refused).
C12_NeverSuspended ==
  \A t \in Threads :
    (/\ InFrame(t, "RequestLock", "lock_sink")
     /\ LiveGuards # {}
     /\ \A x \in LiveGuards : x[1] # t)
      => SinkMutexFree(t)

\* C13: the advice_sink Mutex is not owned by the thread of an executing
\* OnLockGranted callback, and every call into the store made from inside
\* that callback can return.
C13_LockGrantedReentry ==
  /\ \A x \in Callbacks("OnLockGranted") : sink_owner # x[1]
  /\ \A x \in NestedIn("OnLockGranted") : ~NeverReturns(x)

\* C14: a RequestLock called from inside OnTextChange can return.
C14_TextChangeRequestLock ==
  \A x \in NestedIn("OnTextChange") :
    FrameAt(x).op = "RequestLock" => ~NeverReturns(x)

\* C15: whatever flags a granted RequestLock was called with, the lock state
\* is ReadLocked or ReadWriteLocked, never Unlocked (LockType None), while its
\* OnLockGranted callback executes.
C15_HeldDuringCallback ==
  \A x \in Callbacks("OnLockGranted") : lock_state[1] \in {"Read", "ReadWrite"}

\* C16: a RequestLock whose OnLockGranted callback failed returns Err with
\* the callback's error, after its guard has been dropped: as it returns the
\* lock state is (None, 0) unless another call has taken the lock since.
C16_CallbackFailure ==
  [][\A t \in Threads :
       (/\ InFrame(t, "RequestLock", "unlock_sink")
        /\ Top(t).hr # "S_OK"
        /\ stack'[t] # stack[t])
       => /\ ret'.op = "RequestLock"
          /\ ret'.thread = t
          /\ ret'.res = "Err"
          /\ ret'.hr = Top(t).hr
          /\ ret'.ncb = 1
          /\ ~Top(t).guard
          /\ lock_state' = lock_state
          /\ LiveGuards = {} => lock_state' = Unlocked]_vars

\* C16 witness: a RequestLock has just returned the failure of its callback
\* and the store is unlocked.
C16_Witness ==
  /\ ret.op = "RequestLock"
  /\ ret.res = "Err"
  /\ ret.hr = "E_FAIL"
  /\ ret.ncb = 1
  /\ LiveGuards = {}
  /\ lock_state = Unlocked

\* thread t makes the step that calls set_string
SetStringCalled(t) ==
  /\ ncalls' = ncalls + 1
  /\ \/ /\ Len(stack'[t]) = Len(stack[t]) + 1
        /\ stack'[t][Len(stack'[t])].op = "set_string"
     \/ /\ ret'.op = "set_string"
        /\ ret'.thread = t
        /\ stack' = stack

\* C17: a set_string called while anyone holds the lock (a guard is alive),
\* the caller's own OnLockGranted callback included, returns false and leaves
\* the document, the lock state and the delivered events as they were.
C17_ReplaceAllBusy ==
  [][\A t \in Threads :
       (SetStringCalled(t) /\ LiveGuards # {})
       => /\ ret'.op = "set_string"
          /\ ret'.res = "false"
          /\ UNCHANGED <<input_text, lock_state, events, stack>>]_vars

\* the frames that own a LockGuard after the step and did not before it
NewGuards ==
  {x \in {<<t, i>> : t \in Threads, i \in 1..(2 * MaxCalls)} :
     /\ x[2] <= Len(stack'[x[1]])
     /\ stack'[x[1]][x[2]].guard
     /\ IF x[2] <= Len(stack[x[1]]) THEN ~stack[x[1]][x[2]].guard ELSE TRUE}

\* C18: try_lock hands out a guard only when the state is (None, 0); the
\* state then is (ReadWrite, flags) if flags contain TS_LF_READWRITE and
\* (Read, flags) otherwise, for every flags, so that no second guard is handed
\* out while the first is alive; a failed try_lock changes nothing.
C18_TryLock ==
  [][/\ NewGuards # {} =>
          /\ lock_state = Unlocked
          /\ LiveGuards = {}
          /\ lock_state'[1] = (IF flag_check(lock_state'[2], TS_LF_READWRITE)
                               THEN "ReadWrite" ELSE "Read")
          /\ \A x \in NewGuards :
               stack'[x[1]][x[2]].op = "RequestLock"
                 => lock_state'[2] = stack'[x[1]][x[2]].flags
     /\ \A t \in Threads :
          (\/ InFrame(t, "RequestLock", "try")
           \/ SetStringCalled(t)) /\ ~try_lock_ok
            => UNCHANGED lock_state]_vars

\* the bits set in a flags value
Bits(n) == {i \in 0..2 : (n \div (2 ^ i)) % 2 = 1}

\* C19: is_locked(flags) holds exactly when the LockType is not None and
\* every bit of flags is among the stored flags; so under ReadWrite
\* is_locked(TS_LF_READ) holds and GetText is not refused, and under Read
\* is_locked(TS_LF_READWRITE) does not hold.
C19_IsLocked ==
  /\ \A f \in 0..7 :
       is_locked(f) <=> (/\ lock_state[1] # "None"
                         /\ Bits(f) \subseteq Bits(lock_state[2]))
  /\ lock_state[1] = "ReadWrite" => is_locked(TS_LF_READ)
  /\ lock_state[1] = "Read" => ~is_locked(TS_LF_READWRITE)
  /\ (ret.op = "GetText" /\ ret.res = "Err") => ret.pre_lock[1] # "ReadWrite"

\* C19 witness: GetText has returned Ok under a ReadWrite lock whose flags
\* hold more than the READ bit.
C19_Witness ==
  /\ ret.op = "GetText"
  /\ ret.res = "Ok"
  /\ ret.pre_lock[1] = "ReadWrite"
  /\ lock_state = ret.pre_lock
  /\ is_locked(TS_LF_READ)

\* C20: a GetText that returns Ok with acpstart inside the document has
\* copied from offset acpstart on (the first byte written is the document's
\* byte at acpstart), reports min(length, cchplainreq) units, one run of type
\* TS_RT_PLAIN over the whole document, and *pacpnext = acpstart + length.
C20_ReadFromStart ==
  (ret.op = "GetText" /\ ret.res = "Ok") =>
     /\ ret.pcchplainret = Min(Len(ret.text), ret.cchplainreq)
     /\ ret.pcruninforet = 1
     /\ ret.cruninforeq > 0 =>
          ret.run_type = TS_RT_PLAIN /\ ret.uCount = Len(ret.text)
     /\ ret.pacpnext = ret.acpstart + Len(ret.text)
     /\ (ret.cchplainreq > 0 /\ ret.acpstart < Len(ret.text)) =>
          ret.pchplain[1] % 256 = ret.text[ret.acpstart + 1]

\* C21: a RequestLock that returns Ok(S_OK) has made exactly one
\* OnLockGranted call, and every OnLockGranted call is made by a RequestLock
\* that owns a guard while it runs; this whatever set_string calls other
\* threads make meanwhile.
C21_GrantedMeansCalledBack ==
  /\ (ret.op = "RequestLock" /\ ret.res = "Ok" /\ ret.hr = "S_OK")
       => ret.ncb = 1
  /\ \A x \in Callbacks("OnLockGranted") :
       /\ x[2] > 1
       /\ stack[x[1]][x[2] - 1].op = "RequestLock"
       /\ stack[x[1]][x[2] - 1].guard

\* C22: while the Receiver is alive, the cookies of the DoEditSession calls
\* that returned Ok are, in the order of the calls, exactly the cookies
\* received so far followed by those still queued: none is changed, doubled,
\* lost or reordered; and what was received is always a prefix of them.
C22_CookiesInOrder ==
  /\ receiver => dispatched = received \o channel
  /\ Len(received) <= Len(dispatched)
  /\ received = SubSeq(dispatched, 1, Len(received))
  /\ session_ret.sent => session_ret.res = "Ok"

\* C22 witness: two different cookies have been received in the order of
\* their dispatch while a third is queued and the Receiver is alive.
C22_Witness ==
  /\ receiver
  /\ Len(received) = 2
  /\ received[1] # received[2]
  /\ channel # <<>>
  /\ session_ret.sent

====
